---- MODULE Spec2Model ----
(***************************************************************************)
(* Model of eeg_analysis.ipynb: the windowed feature-extraction pipeline   *)
(* (cells run top to bottom) and compute_band_relpower.                    *)
(*                                                                         *)
(* Spec      the notebook run: open_file, configuration, the node walk     *)
(*           with its window loop, vstack, the split, the library stages   *)
(*           and close.                                                    *)
(* SpecSplit the split cell, and the cells after it, on a drawn Dataset.    *)
(* SpecBand  compute_band_relpower applied to the output of signal.welch.  *)
(*                                                                         *)
(* Every sample of a recording carries <<recording number, index>>, so a  *)
(* window's feature vector tells which samples it was computed from.  The  *)
(* feature extraction of a non-empty window is taken to return; on an      *)
(* empty window welch returns no frequencies and freqs[1] raises.          *)
(***************************************************************************)
EXTENDS Integers, Sequences, FiniteSets, TLC

VARIABLES pc, h5_file, store, error,
          sampling_rate, window_size_seconds, stride_seconds,
          window_size, stride,
          node_no, subject_id, num_obs, X, y, ix,
          features, labels, subjects,
          is_test_set, X_train, y_train, X_test, y_test,
          bpc, psd, abs_power, total_power, band_relpower

cfgvars   == <<sampling_rate, window_size_seconds, stride_seconds>>
winvars   == <<window_size, stride>>
nodevars  == <<node_no, subject_id, num_obs, X, y, ix>>
listvars  == <<features, labels, subjects>>
splitvars == <<is_test_set, X_train, y_train, X_test, y_test>>
bandvars  == <<bpc, psd, abs_power, total_power, band_relpower>>
vars == <<pc, h5_file, store, error, cfgvars, winvars, nodevars,
          listvars, splitvars, bandvars>>

(***************************************************************************)
(* Bounds of the model.                                                    *)
(***************************************************************************)
MaxObs == 3
MaxNodes == 2
MaxRate == 1
MaxWindowSeconds == 3
MaxStrideSeconds == 2
MinSeconds == 1

Max(a, b) == IF a >= b THEN a ELSE b
Min(a, b) == IF a <= b THEN a ELSE b

(***************************************************************************)
(* Names of the CArray nodes, as their "_"-separated fields; the subject   *)
(* is the first field (node._v_name.split("/")[0].split("_")[0]).          *)
(***************************************************************************)
NodeNames == {<<"chb01", "01">>, <<"chb02", "01">>}

SubjectOf(name) == name[1]

TestSubject == "chb01"

(***************************************************************************)
(* The recordings a store may hold: a name and the seizure-indicator       *)
(* column (the last column of the N x 3 array).                            *)
(***************************************************************************)
BoundedNodes ==
    { [name |-> nm, indicator |-> yc] :
        nm \in NodeNames,
        yc \in UNION { [1..n -> {0, 1}] : n \in 0..MaxObs } }

ScenarioNode ==
    [name |-> <<"chb01", "01">>,
     indicator |-> [i \in 1..2000 |-> IF (i - 1) \in 1000..1199 THEN 1 ELSE 0]]

\* The CArray nodes walk_nodes may yield.
StoreNodes ==
    CASE store = "bounded" -> BoundedNodes
      [] store = "scenario" -> {ScenarioNode}
      [] OTHER -> {}

(***************************************************************************)
(* Python semantics of the constructs the loop uses.                       *)
(***************************************************************************)
\* s[a:b] on a sequence of length n: negative bounds count from the end,
\* bounds are clamped to [0, n], an empty slice when a >= b.
PySliceBound(i, n) == IF i < 0 THEN Max(i + n, 0) ELSE Min(i, n)

PySlice(s, a, b) ==
    LET lo == PySliceBound(a, Len(s))
        hi == PySliceBound(b, Len(s))
    IN  IF lo < hi THEN SubSeq(s, lo + 1, hi) ELSE << >>

\* range() with the stop value included.
InRangeInclusive(i, stop, step) == IF step > 0 THEN i <= stop ELSE i >= stop

\* membership of i in range(start, stop, step) given that i was reached by
\* stepping from start (step # 0).
InRange(i, stop, step) == IF step > 0 THEN i < stop ELSE i > stop

\* np.any over a column: true iff some element is nonzero.
NpAny(col) == \E k \in DOMAIN col : col[k] # 0

\* np.any over the slice one sample late.
WindowLabelShifted(col, i, w) == NpAny(PySlice(col, i - w + 1, i + 1))

\* The label of the window ending at index i.
WindowLabel(col, i, w) == NpAny(PySlice(col, i - w, i))

\* The feature vector of a window, identified by the window's samples.
FeatureVector(X_w) == X_w

\* Boolean-mask row selection a[mask]: the rows of a whose mask entry is
\* true, in the order of a.
RECURSIVE SelectBetween(_, _, _, _)
SelectBetween(a, mask, lo, hi) ==
    IF lo > hi THEN << >>
    ELSE IF lo = hi THEN (IF mask[lo] THEN <<a[lo]>> ELSE << >>)
    ELSE LET mid == (lo + hi) \div 2
         IN  SelectBetween(a, mask, lo, mid)
               \o SelectBetween(a, mask, mid + 1, hi)

SelectRows(a, mask) == SelectBetween(a, mask, 1, Len(a))

LogicalNot(mask) == [i \in DOMAIN mask |-> ~mask[i]]

IsTestSet(subj) == [i \in DOMAIN subj |-> subj[i] = TestSubject]

\* the mask used without np.logical_not
TrainRowsSameMask(a, mask) == SelectRows(a, mask)

TrainRows(a, mask) == SelectRows(a, LogicalNot(mask))

TestRows(a, mask) == SelectRows(a, mask)

(***************************************************************************)
(* Initial states.                                                         *)
(***************************************************************************)
BandIdle ==
    /\ bpc = "idle"
    /\ psd = << >>
    /\ abs_power = << >>
    /\ total_power = << >>
    /\ band_relpower = << >>

PipelineFresh ==
    /\ h5_file = "unopened"
    /\ error = "none"
    /\ window_size = 0
    /\ stride = 0
    /\ node_no = 0
    /\ subject_id = ""
    /\ num_obs = 0
    /\ X = << >>
    /\ y = << >>
    /\ ix = 0
    /\ features = << >>
    /\ labels = << >>
    /\ subjects = << >>
    /\ is_test_set = << >>
    /\ X_train = << >>
    /\ y_train = << >>
    /\ X_test = << >>
    /\ y_test = << >>

InitBounded ==
    /\ store = "bounded"
    /\ sampling_rate \in 1..MaxRate
    /\ window_size_seconds \in (0 - MinSeconds)..MaxWindowSeconds
    /\ stride_seconds \in (0 - MinSeconds)..MaxStrideSeconds

\* The end-to-end scenario: one 2000-sample recording, samples 1000..1199
\* flagged, sampling_rate 100, 4-second windows, 2-second stride.
InitScenario ==
    /\ store = "scenario"
    /\ sampling_rate = 100
    /\ window_size_seconds = 4
    /\ stride_seconds = 2

Init ==
    /\ pc = "open"
    /\ PipelineFresh
    /\ BandIdle
    /\ (InitBounded \/ InitScenario)

(***************************************************************************)
(* The notebook's cells.                                                   *)
(***************************************************************************)
Raise(name) ==
    /\ pc' = "error"
    /\ error' = name

\* h5_file = tables.open_file(...)
OpenFile ==
    /\ pc = "open"
    /\ h5_file' = "open"
    /\ pc' = "config"
    /\ UNCHANGED <<store, error, cfgvars, winvars, nodevars, listvars,
                   splitvars, bandvars>>

\* window_size = ..., stride = ..., features = [], labels = [], subjects = []
Configure ==
    /\ pc = "config"
    /\ window_size' = window_size_seconds * sampling_rate
    /\ stride' = stride_seconds * sampling_rate
    /\ features' = << >>
    /\ labels' = << >>
    /\ subjects' = << >>
    /\ pc' = "walk"
    /\ UNCHANGED <<h5_file, store, error, cfgvars, nodevars, splitvars,
                   bandvars>>

\* for node in walk_nodes: node.read(), subject_id, X, y, num_obs, and the
\* construction of range(window_size, num_obs, stride).
ReadNode ==
    /\ pc = "walk"
    /\ node_no < MaxNodes
    /\ \E node \in StoreNodes :
         /\ node_no' = node_no + 1
         /\ subject_id' = SubjectOf(node.name)
         /\ num_obs' = Len(node.indicator)
         /\ X' = [i \in 1..Len(node.indicator) |-> <<node_no + 1, i - 1>>]
         /\ y' = node.indicator
    /\ ix' = window_size
    /\ IF stride = 0
         THEN Raise("ValueError")
         ELSE pc' = "window" /\ error' = error
    /\ UNCHANGED <<h5_file, store, cfgvars, winvars, listvars, splitvars,
                   bandvars>>

\* node.read() fails.
ReadFails ==
    /\ pc = "walk"
    /\ node_no < MaxNodes
    /\ Raise("StoreReadError")
    /\ UNCHANGED <<h5_file, store, cfgvars, winvars, nodevars, listvars,
                   splitvars, bandvars>>

\* The window loop with subjects.append outside it: the subject is appended
\* only with the first window of a recording.
WindowStepSubjectOnce ==
    /\ pc = "window"
    /\ InRange(ix, num_obs, stride)
    /\ LET X_w == PySlice(X, ix - window_size, ix)
       IN  IF X_w = << >>
             THEN /\ Raise("IndexError")
                  /\ UNCHANGED <<ix, listvars>>
             ELSE /\ features' = Append(features, FeatureVector(X_w))
                  /\ labels' = Append(labels, WindowLabel(y, ix, window_size))
                  /\ subjects' = IF ix = window_size
                                   THEN Append(subjects, subject_id)
                                   ELSE subjects
                  /\ ix' = ix + stride
                  /\ UNCHANGED <<pc, error>>
    /\ UNCHANGED <<h5_file, store, cfgvars, winvars, node_no, subject_id,
                   num_obs, X, y, splitvars, bandvars>>

\* One iteration of the window loop.
WindowStep ==
    /\ pc = "window"
    /\ InRange(ix, num_obs, stride)
    /\ LET X_w == PySlice(X, ix - window_size, ix)
       IN  IF X_w = << >>
             THEN \* compute_band_relpower: welch returns no frequencies,
                  \* freqs[1] is out of bounds
                  /\ Raise("IndexError")
                  /\ UNCHANGED <<ix, listvars>>
             ELSE /\ features' = Append(features, FeatureVector(X_w))
                  /\ labels' = Append(labels, WindowLabel(y, ix, window_size))
                  /\ subjects' = Append(subjects, subject_id)
                  /\ ix' = ix + stride
                  /\ UNCHANGED <<pc, error>>
    /\ UNCHANGED <<h5_file, store, cfgvars, winvars, node_no, subject_id,
                   num_obs, X, y, splitvars, bandvars>>

\* The range is exhausted: back to the node walk.
WindowsDone ==
    /\ pc = "window"
    /\ ~InRange(ix, num_obs, stride)
    /\ pc' = "walk"
    /\ UNCHANGED <<h5_file, store, error, cfgvars, winvars, nodevars,
                   listvars, splitvars, bandvars>>

\* walk_nodes is exhausted.
WalkDone ==
    /\ pc = "walk"
    /\ pc' = "stack"
    /\ UNCHANGED <<h5_file, store, error, cfgvars, winvars, nodevars,
                   listvars, splitvars, bandvars>>

\* X = np.vstack(features); y = np.array(labels); subjects = np.array(subjects)
Stack ==
    /\ pc = "stack"
    /\ IF features = << >>
         THEN /\ Raise("ValueError")
              /\ UNCHANGED <<X, y>>
         ELSE /\ X' = features
              /\ y' = labels
              /\ pc' = "split"
              /\ error' = error
    /\ UNCHANGED <<h5_file, store, cfgvars, winvars, node_no, subject_id,
                   num_obs, ix, listvars, splitvars, bandvars>>

\* is_test_set, X_train, y_train, X_test, y_test
Split ==
    /\ pc = "split"
    /\ is_test_set' = IsTestSet(subjects)
    /\ X_train' = TrainRows(X, IsTestSet(subjects))
    /\ y_train' = TrainRows(y, IsTestSet(subjects))
    /\ X_test' = TestRows(X, IsTestSet(subjects))
    /\ y_test' = TestRows(y, IsTestSet(subjects))
    /\ pc' = "scale"
    /\ UNCHANGED <<h5_file, store, error, cfgvars, winvars, nodevars,
                   listvars, bandvars>>

\* StandardScaler: fit_transform(X_train), transform(X_test); the library
\* call returns or raises.
Scale ==
    /\ pc = "scale"
    /\ \/ pc' = "fit" /\ error' = error
       \/ Raise("LibraryError")
    /\ UNCHANGED <<h5_file, store, cfgvars, winvars, nodevars, listvars,
                   splitvars, bandvars>>

\* Fitting and evaluating the classifier; the library calls return or raise.
FitEvaluate ==
    /\ pc = "fit"
    /\ \/ pc' = "close" /\ error' = error
       \/ Raise("LibraryError")
    /\ UNCHANGED <<h5_file, store, cfgvars, winvars, nodevars, listvars,
                   splitvars, bandvars>>

\* h5_file.close()
CloseFile ==
    /\ pc = "close"
    /\ h5_file' = "closed"
    /\ pc' = "done"
    /\ UNCHANGED <<store, error, cfgvars, winvars, nodevars, listvars,
                   splitvars, bandvars>>

Next ==
    \/ OpenFile
    \/ Configure
    \/ ReadNode
    \/ ReadFails
    \/ WindowStep
    \/ WindowsDone
    \/ WalkDone
    \/ Stack
    \/ Split
    \/ Scale
    \/ FitEvaluate
    \/ CloseFile

Spec == Init /\ [][Next]_vars

(***************************************************************************)
(* The split cell on its own: the Dataset it is given is drawn from the    *)
(* bounded Datasets, the rest of the run follows.                          *)
(***************************************************************************)
MaxRows == 4

SubjectIds == {SubjectOf(nm) : nm \in NodeNames}

\* Row i of a Dataset: the feature vector of a one-sample window of
\* recording i.
DatasetRow(i) == << <<i, 0>> >>

InitSplit ==
    /\ pc = "split"
    /\ h5_file = "open"
    /\ store = "none"
    /\ error = "none"
    /\ sampling_rate = 256
    /\ window_size_seconds = 4
    /\ stride_seconds = 2
    /\ window_size = 4 * 256
    /\ stride = 2 * 256
    /\ \E n \in 1..MaxRows :
         /\ X = [i \in 1..n |-> DatasetRow(i)]
         /\ y \in [1..n -> BOOLEAN]
         /\ subjects \in [1..n -> SubjectIds]
         /\ node_no = n
         /\ subject_id = subjects[n]
    /\ features = X
    /\ labels = y
    /\ num_obs = 0
    /\ ix = window_size
    /\ is_test_set = << >>
    /\ X_train = << >>
    /\ y_train = << >>
    /\ X_test = << >>
    /\ y_test = << >>
    /\ BandIdle

NextSplit ==
    \/ Split
    \/ Scale
    \/ FitEvaluate
    \/ CloseFile

SpecSplit == InitSplit /\ [][NextSplit]_vars

(***************************************************************************)
(* compute_band_relpower.  Frequencies are counted in half-Hz so that the  *)
(* band edge 0.5 is an integer; powers are counted in units of fr_res/12   *)
(* so that Simpson's weights are integers.                                  *)
(***************************************************************************)
\* Bounds of the PSD inputs.
MaxBase == 1
MaxPsd == 1
MaxSpikeBin == 4

\* signal.welch(X, fs=256.0, axis=0) on a window of at least 256 samples:
\* nperseg = 256, frequencies 0, 1, ..., 128 Hz.
NumFreqs == 129

\* the two EEG columns of the N x 3 array
NumChannels == 2

\* freqs[k] in half-Hz, k counted from 1
Freqs2(k) == 2 * (k - 1)

\* bands = [(0.5,4), (4,8), (8,13), (13,32), (32,60)] in half-Hz
Bands == << <<1, 8>>, <<8, 16>>, <<16, 26>>, <<26, 64>>, <<64, 120>> >>

\* where = lambda lb, ub: np.logical_and(freqs >= lb, freqs < ub)
Where(lb, ub) == [k \in 1..NumFreqs |-> Freqs2(k) >= lb /\ Freqs2(k) < ub]

\* one channel of a (frequencies x channels) array
Column(a, c) == [k \in DOMAIN a |-> a[k][c]]

\* The sum of f over lo..hi.
RECURSIVE SumOver(_, _, _)
SumOver(f, lo, hi) ==
    IF lo > hi THEN 0
    ELSE IF lo = hi THEN f[lo]
    ELSE LET mid == (lo + hi) \div 2
         IN  SumOver(f, lo, mid) + SumOver(f, mid + 1, hi)

\* _basic_simps(y, start, stop): the sum over i = start, start+2, ... < stop
\* of y[i] + 4 y[i+1] + y[i+2] (indices from 0), without the factor dx/3.
BasicSimps(col, start, stop) ==
    LET last == Min(stop - 1, Len(col) - 3)
        count == IF last < start THEN 0 ELSE ((last - start) \div 2) + 1
        term == [m \in 1..count |->
                    LET i == start + 2 * (m - 1)
                    IN  col[i + 1] + 4 * col[i + 2] + col[i + 3]]
    IN  SumOver(term, 1, count)

\* integrate.simps(y, dx=fr_res, axis=0) with even='avg', times 12/fr_res.
\* An odd number of samples: Simpson's rule.  An even number: the average of
\* Simpson on the first N-1 samples plus a trapezoid on the last interval
\* and a trapezoid on the first interval plus Simpson on the last N-1.
Simps12(col) ==
    LET N == Len(col)
    IN  IF N % 2 = 1
          THEN 4 * BasicSimps(col, 0, N - 2)
          ELSE 2 * (BasicSimps(col, 0, N - 3) + BasicSimps(col, 1, N - 2))
                 + 3 * (col[N] + col[N - 1] + col[1] + col[2])

\* abs_power: one row per band, one column per channel
AbsPower(p) ==
    [b \in DOMAIN Bands |->
        [c \in 1..NumChannels |->
            Simps12(Column(SelectRows(p, Where(Bands[b][1], Bands[b][2])), c))]]

\* total_power = integrate.simps(psd, dx=fr_res, axis=0)
TotalPower(p) == [c \in 1..NumChannels |-> Simps12(Column(p, c))]

\* abs_power[:,total_power == 0] = 0
GuardAbs(ap, tp) ==
    [b \in DOMAIN ap |->
        [c \in 1..NumChannels |-> IF tp[c] = 0 THEN 0 ELSE ap[b][c]]]

\* total_power left as integrated
GuardTotalMissing(tp) == tp

\* total_power[total_power == 0] = -1  (-1 is -12 in units of fr_res/12)
GuardTotal(tp) == [c \in 1..NumChannels |-> IF tp[c] = 0 THEN 0 - 12 ELSE tp[c]]

\* floating-point a / t: the quotient num/den, or nan (0/0) or inf (a/0)
Divide(a, t) ==
    IF t = 0 THEN [kind |-> IF a = 0 THEN "nan" ELSE "inf", num |-> a, den |-> t]
    ELSE [kind |-> "finite", num |-> a, den |-> t]

\* (abs_power / total_power).ravel(): row-major, band by band
RelPower(ap, tp) ==
    [n \in 1..(Len(Bands) * NumChannels) |->
        LET b == ((n - 1) \div NumChannels) + 1
            c == ((n - 1) % NumChannels) + 1
        IN  Divide(ap[b][c], tp[c])]

\* The PSDs welch may return here: per channel a flat level plus one spike.
ChannelShapes ==
    { [base |-> bs, bin |-> k, height |-> h] :
        bs \in 0..MaxBase, k \in 0..MaxSpikeBin, h \in 0..MaxPsd }

PsdOf(shapes) ==
    [k \in 1..NumFreqs |->
        [c \in 1..NumChannels |->
            shapes[c].base
              + (IF k - 1 = shapes[c].bin THEN shapes[c].height ELSE 0)]]

PsdInputs == { PsdOf(sh) : sh \in [1..NumChannels -> ChannelShapes] }

PipelineIdle ==
    /\ pc = "idle"
    /\ PipelineFresh
    /\ store = "none"
    /\ sampling_rate = 256
    /\ window_size_seconds = 4
    /\ stride_seconds = 2

InitBand ==
    /\ PipelineIdle
    /\ bpc = "welch"
    /\ psd = << >>
    /\ abs_power = << >>
    /\ total_power = << >>
    /\ band_relpower = << >>

pipevars == <<pc, h5_file, store, error, cfgvars, winvars, nodevars,
              listvars, splitvars>>

\* freqs, psd = signal.welch(X, fs=256.0, axis=0)
Welch ==
    /\ bpc = "welch"
    /\ psd' \in PsdInputs
    /\ bpc' = "abs"
    /\ UNCHANGED <<abs_power, total_power, band_relpower, pipevars>>

BandAbsPower ==
    /\ bpc = "abs"
    /\ abs_power' = AbsPower(psd)
    /\ bpc' = "total"
    /\ UNCHANGED <<psd, total_power, band_relpower, pipevars>>

BandTotalPower ==
    /\ bpc = "total"
    /\ total_power' = TotalPower(psd)
    /\ bpc' = "guard_abs"
    /\ UNCHANGED <<psd, abs_power, band_relpower, pipevars>>

BandGuardAbs ==
    /\ bpc = "guard_abs"
    /\ abs_power' = GuardAbs(abs_power, total_power)
    /\ bpc' = "guard_total"
    /\ UNCHANGED <<psd, total_power, band_relpower, pipevars>>

BandGuardTotal ==
    /\ bpc = "guard_total"
    /\ total_power' = GuardTotal(total_power)
    /\ bpc' = "divide"
    /\ UNCHANGED <<psd, abs_power, band_relpower, pipevars>>

BandDivide ==
    /\ bpc = "divide"
    /\ band_relpower' = RelPower(abs_power, total_power)
    /\ bpc' = "return"
    /\ UNCHANGED <<psd, abs_power, total_power, pipevars>>

NextBand ==
    \/ Welch
    \/ BandAbsPower
    \/ BandTotalPower
    \/ BandGuardAbs
    \/ BandGuardTotal
    \/ BandDivide

SpecBand == InitBand /\ [][NextBand]_vars

(***************************************************************************)
(* Vocabulary of the properties.                                           *)
(***************************************************************************)
\* The recording read last has been windowed to the end of its range.
NodeFinished == pc = "walk" /\ node_no >= 1

\* A configuration the windower's contract admits.
Windower == window_size > 0 /\ stride > 0

\* Positions in features/labels/subjects of the windows of the recording
\* read last (every sample of X carries the number of its recording).
CurPositions == {i \in DOMAIN features : features[i][1][1] = node_no}

CurCount == Cardinality(CurPositions)

\* The k-th of these positions, in list order.
CurPosition(k) ==
    CHOOSE i \in CurPositions : Cardinality({m \in CurPositions : m <= i}) = k

\* The samples [lo, hi) of the recording read last.
Samples(lo, hi) == [j \in 1..(hi - lo) |-> <<node_no, lo + j - 1>>]

Range(s) == {s[i] : i \in DOMAIN s}

\* C1: with window_size > 0, stride > 0 and stride <= window_size, a
\* finished recording has produced max(0, floor((num_obs - window_size) /
\* stride) + 1) windows.
C1Claim ==
    (NodeFinished /\ Windower /\ stride <= window_size)
        => CurCount = Max(0, ((num_obs - window_size) \div stride) + 1)

\* C2 as stated: with num_obs >= window_size, a finished recording has
\* produced floor((num_obs - window_size) / stride) windows.
C2Claim ==
    (NodeFinished /\ Windower /\ num_obs >= window_size)
        => CurCount = (num_obs - window_size) \div stride

\* C2 amended: with num_obs >= window_size, a finished recording has
\* produced ceil((num_obs - window_size) / stride) windows.
C2Amended ==
    (NodeFinished /\ Windower /\ num_obs >= window_size)
        => CurCount = (num_obs - window_size + stride - 1) \div stride

C2Witness ==
    /\ NodeFinished
    /\ Windower
    /\ num_obs > window_size
    /\ (num_obs - window_size) % stride # 0
    /\ CurCount >= 1

\* C3: the windows of a finished recording are, in order, the windows of
\* the starts window_size, window_size + stride, ... for as long as
\* start <= num_obs, each holding exactly the samples [start - window_size,
\* start).
C3Claim ==
    (NodeFinished /\ Windower)
        => LET K == IF num_obs < window_size THEN 0
                    ELSE ((num_obs - window_size) \div stride) + 1
           IN  /\ CurCount = K
               /\ \A k \in 1..K :
                    LET start == window_size + (k - 1) * stride
                    IN  /\ start <= num_obs
                        /\ features[CurPosition(k)]
                             = Samples(start - window_size, start)

\* C4: the label of every window is true iff some sample of its range
\* [start - window_size, start) is seizure-flagged; in the 2000-sample
\* scenario the windows labelled true are exactly those overlapping
\* [1000, 1200).
C4Label ==
    (pc \in {"window", "walk"} /\ node_no >= 1 /\ Windower)
        => \A k \in 1..CurCount :
             LET start == window_size + (k - 1) * stride
                 label == labels[CurPosition(k)]
             IN  /\ label \in BOOLEAN
                 /\ label <=> \E j \in (start - window_size)..(start - 1) :
                                  y[j + 1] = 1
                 /\ store = "scenario"
                      => (label <=> /\ (k - 1) * 200 < 1200
                                    /\ (k - 1) * 200 + 400 > 1000)

C4Witness ==
    /\ NodeFinished
    /\ store = "scenario"
    /\ node_no = 1
    /\ labels = <<FALSE, FALSE, FALSE, FALSE, TRUE, TRUE, FALSE, FALSE>>

\* The split has been made.
SplitDone == pc \in {"scale", "fit", "close", "done"}

TrainIdx == {i \in DOMAIN X : subjects[i] # TestSubject}

TestIdx == {i \in DOMAIN X : subjects[i] = TestSubject}

\* The j-th smallest element of a set of positions.
Nth(S, j) == CHOOSE i \in S : Cardinality({m \in S : m <= i}) = j

\* part holds exactly the rows of full at the positions S, in their order.
RowsAt(part, full, S) ==
    /\ Len(part) = Cardinality(S)
    /\ \A j \in 1..Len(part) : part[j] = full[Nth(S, j)]

C8Claim ==
    ((SplitDone \/ (pc = "error" /\ is_test_set # << >>)) /\ TestIdx = {})
        => (pc = "error" /\ error = "UnknownSubject")

\* C9: with window_size <= 0 or stride <= 0 the windower raises (its loop
\* never runs to its end) and appends nothing; when no start index
\* qualifies it raises nothing and appends nothing.
C9Claim ==
    /\ (node_no >= 1 /\ ~Windower /\ pc \in {"window", "walk", "error"})
         => (pc # "walk" /\ features = << >> /\ labels = << >>
                /\ subjects = << >>)
    /\ (node_no >= 1 /\ Windower /\ window_size > num_obs
           /\ pc \in {"window", "walk", "error"})
         => (pc # "error" /\ CurCount = 0)

\* C10: the handle is open before any recording is traversed, and every
\* run that has ended, normally or by an error, has closed it.
C10Claim ==
    /\ node_no >= 1 => h5_file # "unopened"
    /\ pc \in {"done", "error"} => h5_file = "closed"


\* The relative power returned for band b of channel c.
Returned(b, c) == band_relpower[(b - 1) * NumChannels + c]

\* The integral of channel c's PSD over the bins of band b.
BandIntegral(b, c) ==
    Simps12(Column(SelectRows(psd, Where(Bands[b][1], Bands[b][2])), c))

\* A channel whose PSD integrates to zero.
ZeroChannel(c) == Simps12(Column(psd, c)) = 0

\* C5: a channel whose total power is exactly zero gets relative power 0 in
\* all five bands, no division by zero is performed, and the other channels
\* get band power over total power as if there were no guard.
C5ZeroGuard ==
    /\ bpc \in {"divide", "return"}
         => \A c \in 1..NumChannels : total_power[c] # 0
    /\ bpc = "return"
         => \A c \in 1..NumChannels : \A b \in DOMAIN Bands :
              /\ Returned(b, c).kind = "finite"
              /\ ZeroChannel(c) => Returned(b, c).num = 0
              /\ ~ZeroChannel(c)
                   => /\ Returned(b, c).num = BandIntegral(b, c)
                      /\ Returned(b, c).den = Simps12(Column(psd, c))

C5Witness ==
    /\ bpc = "return"
    /\ ZeroChannel(1)
    /\ ~ZeroChannel(2)
    /\ Returned(1, 2).num > 0

RECURSIVE SumNum(_, _)
SumNum(b, c) == IF b = 0 THEN 0 ELSE Returned(b, c).num + SumNum(b - 1, c)

\* C6: for a non-negative PSD the five relative powers of a channel sum to
\* a value in [0, 1].
C6Claim ==
    bpc = "return"
        => \A c \in 1..NumChannels :
             /\ \A b \in DOMAIN Bands : Returned(b, c).kind = "finite"
             /\ LET den == Returned(1, c).den
                    sum == SumNum(Len(Bands), c)
                IN  IF den > 0 THEN 0 <= sum /\ sum <= den
                               ELSE sum <= 0 /\ den <= sum

\* The recording and the first sample of the window behind row i.
RowNode(i) == features[i][1][1]

RowStart(i) == features[i][1][2]

\* The three lists are equally long and their rows are in traversal order:
\* recordings in discovery order, one subject per recording, and (for a
\* configuration the windower admits) increasing starts within a recording.
C11Rows ==
    /\ Len(features) = Len(labels)
    /\ Len(labels) = Len(subjects)
    /\ \A i \in DOMAIN features : \A j \in DOMAIN features :
         i < j => /\ RowNode(i) <= RowNode(j)
                  /\ RowNode(i) = RowNode(j)
                       => /\ subjects[i] = subjects[j]
                          /\ Windower => RowStart(i) < RowStart(j)

\* A window step appends one row to each list, all three from the window
\* of the recording being walked: the feature vector of a run of its
\* samples, the OR of the indicator over those same samples, and its subject.
C11Append ==
    (pc = "window" /\ <<features, labels, subjects>>' # <<features, labels, subjects>>)
        => /\ Len(features') = Len(features) + 1
           /\ LET f == features'[Len(features')]
              IN  /\ features' = Append(features, f)
                  /\ f # << >>
                  /\ \A k \in DOMAIN f :
                       /\ f[k][1] = node_no
                       /\ f[k][2] \in 0..(num_obs - 1)
                       /\ k > 1 => f[k][2] = f[k - 1][2] + 1
                  /\ Windower => f = Samples(ix - window_size, ix)
                  /\ labels' = Append(labels,
                                      \E k \in DOMAIN f : y[f[k][2] + 1] # 0)
                  /\ subjects' = Append(subjects, subject_id)

\* C11: after every window step, over any sequence of recordings, features,
\* labels and subjects are equally long and the i-th feature vector, label
\* and subject come from the same window of the same recording, in window
\* traversal order.
C11Lockstep == [](C11Rows) /\ [][C11Append]_vars

C11Witness ==
    /\ pc = "walk"
    /\ node_no = 2
    /\ Len(features) >= 3
    /\ RowNode(1) = 1
    /\ RowNode(Len(features)) = 2
    /\ RowNode(2) = RowNode(3)
    /\ subjects[1] # subjects[Len(subjects)]
    /\ \E i \in DOMAIN labels : labels[i]
    /\ \E i \in DOMAIN labels : ~labels[i]

====
